---- MODULE Spec2Model ----
(***************************************************************************)
(* Model of src/lambda/lambda.py: the GitHub issues -> Slack webhook       *)
(* bridge.  lambda_handler is modelled statement group by statement group; *)
(* Python values are tagged records, text is a sequence of granules (the   *)
(* lexemes of the modelled alphabet), and json.loads / json.dumps are      *)
(* computed over those granules.                                           *)
(***************************************************************************)
EXTENDS Integers, Sequences, FiniteSets, TLC

\* Largest issue number (and largest JSON number) of the enumerated inputs.
MaxIssueNumber == 2

\* Cap on the outbound calls recorded for one invocation.
MaxPosts == 3

-----------------------------------------------------------------------------
(* Python values *)

PyNone == [t |-> "None"]
PyBool(b) == [t |-> "bool", b |-> b]
PyInt(n) == [t |-> "int", n |-> n]
PyNaN == [t |-> "float", f |-> "nan"]
PyStr(s) == [t |-> "str", s |-> s]
PyBytes(s) == [t |-> "bytes", s |-> s]
PyList(items) == [t |-> "list", items |-> items]
PyDict(items) == [t |-> "dict", items |-> items]

\* A local name that no statement has bound yet.
Unbound == [t |-> "unbound"]

Quote == "\""
Space == " "

\* isinstance(v, dict)
IsDict(v) == v.t = "dict"

\* key in d, for a dict d
HasKey(d, k) == \E i \in 1..Len(d.items) : d.items[i].k = k

\* d[key], for a dict d that has the key
GetItem(d, k) == d.items[CHOOSE i \in 1..Len(d.items) : d.items[i].k = k].v

\* d.get(key): the value, or None
DictGet(d, k) == IF HasKey(d, k) THEN GetItem(d, k) ELSE PyNone

\* d[key] = v on the item list of a dict: an existing key keeps its place
SetItem(items, k, v) ==
    IF \E i \in 1..Len(items) : items[i].k = k
    THEN [i \in 1..Len(items) |-> IF items[i].k = k THEN [k |-> k, v |-> v] ELSE items[i]]
    ELSE Append(items, [k |-> k, v |-> v])

\* bool(v)
Truthy(v) ==
    CASE v.t = "None" -> FALSE
      [] v.t = "bool" -> v.b
      [] v.t = "int" -> v.n # 0
      [] v.t = "float" -> TRUE
      [] v.t = "str" -> Len(v.s) > 0
      [] v.t = "bytes" -> Len(v.s) > 0
      [] v.t = "list" -> Len(v.items) > 0
      [] v.t = "dict" -> Len(v.items) > 0

\* sub in s, for two str values: a contiguous run of granules
IsSubstring(sub, s) ==
    \E i \in 0..(Len(s) - Len(sub)) : SubSeq(s, i + 1, i + Len(sub)) = sub

-----------------------------------------------------------------------------
(* json.loads *)

NumberGranules == { ToString(n) : n \in 0..MaxIssueNumber }
IntOf(g) == CHOOSE n \in 0..MaxIssueNumber : ToString(n) = g

ParseFail == [ok |-> FALSE, val |-> PyNone, next |-> 0]
ParseOk(v, n) == [ok |-> TRUE, val |-> v, next |-> n]

RECURSIVE SkipWs(_, _)
SkipWs(ts, i) == IF i <= Len(ts) /\ ts[i] = Space THEN SkipWs(ts, i + 1) ELSE i

RECURSIVE FindQuote(_, _)
FindQuote(ts, i) ==
    IF i > Len(ts) THEN 0 ELSE IF ts[i] = Quote THEN i ELSE FindQuote(ts, i + 1)

\* ts[i] is an opening quote
ParseString(ts, i) ==
    LET j == FindQuote(ts, i + 1)
    IN  IF j = 0 THEN ParseFail ELSE ParseOk(PyStr(SubSeq(ts, i + 1, j - 1)), j + 1)

RECURSIVE ParseValue(_, _)
RECURSIVE ParseMembers(_, _, _)
RECURSIVE ParseElements(_, _, _)

\* i is at the first key of a non-empty object
ParseMembers(ts, i, acc) ==
    IF i > Len(ts) \/ ts[i] # Quote THEN ParseFail
    ELSE LET key == ParseString(ts, i)
         IN  IF ~key.ok THEN ParseFail
             ELSE LET c == SkipWs(ts, key.next)
                  IN  IF c > Len(ts) \/ ts[c] # ":" THEN ParseFail
                      ELSE LET v == ParseValue(ts, c + 1)
                           IN  IF ~v.ok THEN ParseFail
                               ELSE LET e == SkipWs(ts, v.next)
                                        items == SetItem(acc, key.val.s, v.val)
                                    IN  IF e > Len(ts) THEN ParseFail
                                        ELSE IF ts[e] = "}" THEN ParseOk(PyDict(items), e + 1)
                                        ELSE IF ts[e] = ","
                                             THEN ParseMembers(ts, SkipWs(ts, e + 1), items)
                                        ELSE ParseFail

\* i is at the first element of a non-empty array
ParseElements(ts, i, acc) ==
    LET v == ParseValue(ts, i)
    IN  IF ~v.ok THEN ParseFail
        ELSE LET e == SkipWs(ts, v.next)
                 items == Append(acc, v.val)
             IN  IF e > Len(ts) THEN ParseFail
                 ELSE IF ts[e] = "]" THEN ParseOk(PyList(items), e + 1)
                 ELSE IF ts[e] = "," THEN ParseElements(ts, e + 1, items)
                 ELSE ParseFail

ParseValue(ts, i0) ==
    LET i == SkipWs(ts, i0)
    IN  IF i > Len(ts) THEN ParseFail
        ELSE CASE ts[i] = Quote -> ParseString(ts, i)
               [] ts[i] = "{" ->
                    LET j == SkipWs(ts, i + 1)
                    IN  IF j <= Len(ts) /\ ts[j] = "}" THEN ParseOk(PyDict(<<>>), j + 1)
                        ELSE ParseMembers(ts, j, <<>>)
               [] ts[i] = "[" ->
                    LET j == SkipWs(ts, i + 1)
                    IN  IF j <= Len(ts) /\ ts[j] = "]" THEN ParseOk(PyList(<<>>), j + 1)
                        ELSE ParseElements(ts, i + 1, <<>>)
               [] ts[i] = "null" -> ParseOk(PyNone, i + 1)
               [] ts[i] = "true" -> ParseOk(PyBool(TRUE), i + 1)
               [] ts[i] = "false" -> ParseOk(PyBool(FALSE), i + 1)
               [] ts[i] = "NaN" -> ParseOk(PyNaN, i + 1)
               [] ts[i] \in NumberGranules -> ParseOk(PyInt(IntOf(ts[i])), i + 1)
               [] OTHER -> ParseFail

\* json.loads(s): [exc, val]; a TypeError for an argument that is not text,
\* a JSONDecodeError for text that is not one JSON value.
json_loads(s) ==
    IF s.t \notin {"str", "bytes"} THEN [exc |-> "TypeError", val |-> PyNone]
    ELSE LET r == ParseValue(s.s, 1)
         IN  IF r.ok /\ SkipWs(s.s, r.next) = Len(s.s) + 1
             THEN [exc |-> "none", val |-> r.val]
             ELSE [exc |-> "JSONDecodeError", val |-> PyNone]

-----------------------------------------------------------------------------
(* json.dumps, str() *)

RECURSIVE Dumps(_)
RECURSIVE DumpsItems(_, _)
RECURSIVE DumpsMembers(_, _)

DumpsItems(items, i) ==
    IF i > Len(items) THEN <<>>
    ELSE (IF i > 1 THEN <<",", Space>> ELSE <<>>) \o Dumps(items[i]) \o DumpsItems(items, i + 1)

DumpsMembers(items, i) ==
    IF i > Len(items) THEN <<>>
    ELSE (IF i > 1 THEN <<",", Space>> ELSE <<>>)
         \o <<Quote>> \o items[i].k \o <<Quote, ":", Space>>
         \o Dumps(items[i].v) \o DumpsMembers(items, i + 1)

\* the granules of json.dumps(v), default separators
Dumps(v) ==
    CASE v.t = "None" -> <<"null">>
      [] v.t = "bool" -> IF v.b THEN <<"true">> ELSE <<"false">>
      [] v.t = "int" -> <<ToString(v.n)>>
      [] v.t = "float" -> <<"NaN">>
      [] v.t = "str" -> <<Quote>> \o v.s \o <<Quote>>
      [] v.t = "list" -> <<"[">> \o DumpsItems(v.items, 1) \o <<"]">>
      [] v.t = "dict" -> <<"{">> \o DumpsMembers(v.items, 1) \o <<"}">>

json_dumps(v) == PyStr(Dumps(v))

RECURSIVE Repr(_)
RECURSIVE ReprItems(_, _)
RECURSIVE ReprMembers(_, _)

ReprItems(items, i) ==
    IF i > Len(items) THEN <<>>
    ELSE (IF i > 1 THEN <<",", Space>> ELSE <<>>) \o Repr(items[i]) \o ReprItems(items, i + 1)

ReprMembers(items, i) ==
    IF i > Len(items) THEN <<>>
    ELSE (IF i > 1 THEN <<",", Space>> ELSE <<>>)
         \o <<"'">> \o items[i].k \o <<"'", ":", Space>>
         \o Repr(items[i].v) \o ReprMembers(items, i + 1)

\* the granules of repr(v)
Repr(v) ==
    CASE v.t = "None" -> <<"None">>
      [] v.t = "bool" -> IF v.b THEN <<"True">> ELSE <<"False">>
      [] v.t = "int" -> <<ToString(v.n)>>
      [] v.t = "float" -> <<"nan">>
      [] v.t = "str" -> <<"'">> \o v.s \o <<"'">>
      [] v.t = "list" -> <<"[">> \o ReprItems(v.items, 1) \o <<"]">>
      [] v.t = "dict" -> <<"{">> \o ReprMembers(v.items, 1) \o <<"}">>

\* the granules an f-string substitutes for {v}: str(v)
Format(v) == IF v.t = "str" THEN v.s ELSE Repr(v)

-----------------------------------------------------------------------------
(* The inputs of lambda_handler: the event, the process environment and the *)
(* state of the network between the function and the Slack endpoint.        *)

Text(g) == <<g>>
JsonString(s) == <<Quote>> \o s \o <<Quote>>
JsonObject1(k, vtext) == <<"{">> \o JsonString(Text(k)) \o <<":">> \o vtext \o <<"}">>

\* https://github.com/org/repo/issues/<n>
IssueHtmlUrl(n) == <<"https://github.com/org/repo/", "issue", "s/", ToString(n)>>

\* {"issue":{"html_url":"https://github.com/org/repo/issues/<n>"}}
IssuesEventText(n) ==
    JsonObject1("issue", JsonObject1("html_url", JsonString(IssueHtmlUrl(n))))

\* the same event as GitHub pretty-prints it, with an "action" member first
SpacedIssuesEventText(n) ==
    <<"{", Space>> \o JsonString(Text("action")) \o <<Space, ":", Space>>
    \o JsonString(Text("opened")) \o <<",", Space>> \o JsonString(Text("issue"))
    \o <<":", Space, "{", Space>> \o JsonString(Text("html_url")) \o <<":", Space>>
    \o JsonString(IssueHtmlUrl(n)) \o <<Space, "}", Space, "}">>

BodyTexts ==
    { IssuesEventText(n) : n \in 1..MaxIssueNumber }
    \cup { SpacedIssuesEventText(1),
           JsonObject1("issue", <<"{", "}">>),
           JsonObject1("issue", JsonObject1("html_url", <<"null">>)),
           JsonObject1("issue", JsonObject1("html_url", JsonString(<<>>))),
           JsonObject1("issue", JsonObject1("html_url", <<"1">>)),
           JsonObject1("issue", JsonString(IssueHtmlUrl(1))),
           JsonObject1("zen", JsonString(Text("Keep it logically awesome."))),
           <<"1">>,
           <<"null">>,
           <<"NaN">>,
           <<"true">>,
           <<"[", "]">>,
           <<"[">> \o JsonString(Text("issue")) \o <<"]">>,
           JsonString(Text("issue")),
           <<"not", Space, "json">>,
           <<>> }

Headers == PyDict(<<[k |-> Text("X-GitHub-Event"), v |-> PyStr(Text("issues"))]>>)

\* API Gateway proxy events, with and without a "body", and direct invocations
Events ==
    { PyDict(<<[k |-> Text("headers"), v |-> Headers],
               [k |-> Text("body"), v |-> PyStr(b)]>>) : b \in BodyTexts }
    \cup { PyStr(IssuesEventText(1)),
           PyStr(<<"not", Space, "json">>),
           json_loads(PyStr(IssuesEventText(1))).val,
           PyDict(<<[k |-> Text("body"), v |-> json_loads(PyStr(IssuesEventText(1))).val]>>),
           PyDict(<<[k |-> Text("body"), v |-> PyNone]>>),
           PyDict(<<[k |-> Text("headers"), v |-> Headers]>>),
           PyNone }

WebhookUrl == <<"https", ":", "//hooks.slack.com/services/T000/B000/XXXX">>

\* os.environ: SLACK_URL unset, empty, a webhook URL, or a value with no scheme
Environs ==
    { [AWS_REGION |-> Text("us-east-1")],
      [AWS_REGION |-> Text("us-east-1"), SLACK_URL |-> <<>>],
      [AWS_REGION |-> Text("us-east-1"), SLACK_URL |-> WebhookUrl],
      [AWS_REGION |-> Text("us-east-1"), SLACK_URL |-> Text("hooks.slack.com/services/T000")] }

Networks == {"reachable", "unreachable"}

\* What urlopen(request) can do.  "ok": a 2xx response.  "HTTPError": a
\* non-2xx response.  "URLError": the connection could not be made.
\* "RemoteDisconnected": the peer closed the connection before answering,
\* which http.client raises from getresponse() and urllib does not wrap.
\* An unreachable destination never gets past the connection attempt.
UrlopenOutcomes(net) ==
    IF net = "unreachable" THEN {"URLError"}
    ELSE {"ok", "HTTPError", "URLError", "RemoteDisconnected"}

-----------------------------------------------------------------------------
(* lambda_handler *)

VARIABLES
    pc,          \* the handler's position
    event,       \* argument of the invocation
    environ,     \* os.environ
    network,     \* state of the route to the destination
    slack_url, body, payload, issue_url, message, data, request,  \* locals
    posts,       \* the requests this invocation has handed to urlopen
    outcome,     \* what the last urlopen did
    log,         \* the lines this invocation has printed
    result,      \* how the invocation ended: a returned value or a raised exception
    prev         \* set when the runtime repeats an invocation: the result of the one before

vars == <<pc, event, environ, network, slack_url, body, payload, issue_url,
          message, data, request, posts, outcome, log, result, prev>>

locals == <<slack_url, body, payload, issue_url, message, data, request>>
inputs == <<event, environ, network>>

Pending == [kind |-> "pending", exc |-> "none", value |-> PyNone]
Returned(v) == [kind |-> "return", exc |-> "none", value |-> v]
Raised(e) == [kind |-> "raise", exc |-> e, value |-> PyNone]

\* os.getenv(name)
getenv(env, name) == IF name \in DOMAIN env THEN PyStr(env[name]) ELSE PyNone

\* "issue" in payload and isinstance(payload["issue"], dict), then
\* payload["issue"].get("html_url"); issue_url stays None otherwise.
\* [exc, val]: `in` raises TypeError on a value that is no container, and
\* payload["issue"] raises TypeError on a list or a str.
IssueUrlOf(p) ==
    LET issue == Text("issue")
        contains ==
            CASE p.t = "dict" -> [exc |-> "none", val |-> HasKey(p, issue)]
              [] p.t = "list" ->
                    [exc |-> "none", val |-> \E i \in 1..Len(p.items) : p.items[i] = PyStr(issue)]
              [] p.t = "str" -> [exc |-> "none", val |-> IsSubstring(issue, p.s)]
              [] OTHER -> [exc |-> "TypeError", val |-> FALSE]
    IN  IF contains.exc # "none" THEN [exc |-> contains.exc, val |-> PyNone]
        ELSE IF ~contains.val THEN [exc |-> "none", val |-> PyNone]
        ELSE IF p.t # "dict" THEN [exc |-> "TypeError", val |-> PyNone]
        ELSE IF IsDict(GetItem(p, issue))
             THEN [exc |-> "none", val |-> DictGet(GetItem(p, issue), Text("html_url"))]
        ELSE [exc |-> "none", val |-> PyNone]

\* event["body"] if the event is a dict with a "body" key, else the event
BodyOf(e) ==
    IF IsDict(e) /\ HasKey(e, Text("body")) THEN GetItem(e, Text("body")) ELSE e

\* Variant of PayloadOf: the fallback keeps the raw body itself as the payload.
PayloadOfUnwrapped(b) ==
    IF json_loads(b).exc = "none" THEN json_loads(b).val ELSE b

\* json.loads(body), or {"raw": body} when it raises
PayloadOf(b) ==
    IF json_loads(b).exc = "none" THEN json_loads(b).val
    ELSE PyDict(<<[k |-> Text("raw"), v |-> b]>>)

\* {"text": f":tada: New GitHub Issue created: {issue_url}"}
MessageOf(url) ==
    PyDict(<<[k |-> Text("text"),
              v |-> PyStr(Text(":tada: New GitHub Issue created: ") \o Format(url))]>>)

\* str.encode("utf-8")
encode(s) == PyBytes(s.s)

\* str.capitalize() of a header name, as Request.add_header stores it
capitalize(name) == IF name = "Content-Type" THEN "Content-type" ELSE name

\* urllib.request.Request(url, data=, headers=): ValueError for a URL with no
\* scheme; the method is POST because data is given.
NewRequest(url, d, hname, hvalue) ==
    IF Len(url.s) >= 2 /\ url.s[2] = ":"
    THEN [exc |-> "none",
          val |-> [full_url |-> url.s, method |-> "POST", data |-> d,
                   headers |-> <<[k |-> capitalize(hname), v |-> hvalue]>>]]
    ELSE [exc |-> "ValueError", val |-> Unbound]

\* the returned envelope
ResponseOf(url, slack) ==
    PyDict(<<[k |-> Text("statusCode"), v |-> PyInt(200)],
             [k |-> Text("body"),
              v |-> json_dumps(PyDict(<<[k |-> Text("message"), v |-> PyStr(Text("success"))],
                                        [k |-> Text("issueUrl"), v |-> url],
                                        [k |-> Text("connectedToSlack"),
                                         v |-> PyBool(Truthy(slack))]>>))]>>)

Init ==
    /\ pc = "idle"
    /\ event = PyNone
    /\ environ = [AWS_REGION |-> Text("us-east-1")]
    /\ network = "reachable"
    /\ slack_url = Unbound
    /\ body = Unbound
    /\ payload = Unbound
    /\ issue_url = Unbound
    /\ message = Unbound
    /\ data = Unbound
    /\ request = Unbound
    /\ posts = <<>>
    /\ outcome = "none"
    /\ log = <<>>
    /\ result = Pending
    /\ prev = [valid |-> FALSE, result |-> Pending]

\* A call binds the parameters and starts with a fresh frame.
Enter ==
    /\ slack_url' = Unbound
    /\ body' = Unbound
    /\ payload' = Unbound
    /\ issue_url' = Unbound
    /\ message' = Unbound
    /\ data' = Unbound
    /\ request' = Unbound
    /\ posts' = <<>>
    /\ outcome' = "none"
    /\ log' = <<>>
    /\ result' = Pending
    /\ pc' = "getenv"

\* The runtime calls lambda_handler(event, context) with a new event.
Invoke ==
    /\ pc \in {"idle", "done"}
    /\ \E e \in Events, env \in Environs, net \in Networks :
          /\ event' = e
          /\ environ' = env
          /\ network' = net
    /\ prev' = [valid |-> FALSE, result |-> Pending]
    /\ Enter

\* The runtime calls lambda_handler again with the event it has just
\* delivered (a redelivery), in the same environment.
Reinvoke ==
    /\ pc = "done"
    /\ prev' = [valid |-> TRUE, result |-> result]
    /\ Enter
    /\ UNCHANGED inputs

\* lines 39-45
ReadSlackUrl ==
    /\ pc = "getenv"
    /\ slack_url' = getenv(environ, "SLACK_URL")
    /\ log' = IF ~Truthy(slack_url') THEN Append(log, "SLACK_URL not set") ELSE log
    /\ pc' = "body"
    /\ UNCHANGED <<inputs, body, payload, issue_url, message, data, request,
                   posts, outcome, result, prev>>

\* lines 50-53
ExtractBody ==
    /\ pc = "body"
    /\ body' = BodyOf(event)
    /\ pc' = "parse"
    /\ UNCHANGED <<inputs, slack_url, payload, issue_url, message, data, request,
                   posts, outcome, log, result, prev>>

\* lines 58-62
ParsePayload ==
    /\ pc = "parse"
    /\ payload' = PayloadOf(body)
    /\ pc' = "extract"
    /\ UNCHANGED <<inputs, slack_url, body, issue_url, message, data, request,
                   posts, outcome, log, result, prev>>

\* Variant of ExtractIssueUrl: an issue already reported by the delivery just
\* before is dropped as a duplicate.
ExtractIssueUrlOnce ==
    /\ pc = "extract"
    /\ LET r == IssueUrlOf(payload)
           last == IF prev.valid /\ prev.result.kind = "return"
                   THEN GetItem(json_loads(GetItem(prev.result.value, Text("body"))).val,
                                Text("issueUrl"))
                   ELSE PyNone
       IN  IF r.exc = "none"
           THEN /\ issue_url' = IF r.val = last THEN PyNone ELSE r.val
                /\ pc' = "decide"
                /\ result' = result
           ELSE /\ issue_url' = PyNone
                /\ pc' = "done"
                /\ result' = Raised(r.exc)
    /\ UNCHANGED <<inputs, slack_url, body, payload, message, data, request,
                   posts, outcome, log, prev>>

\* lines 67-70; a TypeError raised here leaves the handler
ExtractIssueUrl ==
    /\ pc = "extract"
    /\ LET r == IssueUrlOf(payload)
       IN  IF r.exc = "none"
           THEN /\ issue_url' = r.val
                /\ pc' = "decide"
                /\ result' = result
           ELSE /\ issue_url' = PyNone
                /\ pc' = "done"
                /\ result' = Raised(r.exc)
    /\ UNCHANGED <<inputs, slack_url, body, payload, message, data, request,
                   posts, outcome, log, prev>>

\* lines 75, 95-101
Decide ==
    /\ pc = "decide"
    /\ IF Truthy(issue_url) /\ Truthy(slack_url)
       THEN pc' = "build" /\ log' = log
       ELSE /\ pc' = "respond"
            /\ log' = IF Truthy(issue_url)
                      THEN Append(log, "IssueURL detected but SLACK_URL not configured")
                      ELSE Append(log, "No issueURL found in payload")
    /\ UNCHANGED <<inputs, locals, posts, outcome, result, prev>>

\* lines 78-84; a ValueError raised by Request() leaves the handler
BuildRequest ==
    /\ pc = "build"
    /\ message' = MessageOf(issue_url)
    /\ data' = encode(json_dumps(message'))
    /\ LET r == NewRequest(slack_url, data', "Content-Type", "application/json")
       IN  IF r.exc = "none"
           THEN request' = r.val /\ pc' = "send" /\ result' = result
           ELSE request' = request /\ pc' = "done" /\ result' = Raised(r.exc)
    /\ UNCHANGED <<inputs, slack_url, body, payload, issue_url, posts, outcome, log, prev>>

\* Variant of SendToSlack: a failed POST is sent again.
SendToSlackRetry ==
    /\ pc = "send"
    /\ Len(posts) < MaxPosts
    /\ posts' = Append(posts, request)
    /\ \E o \in UrlopenOutcomes(network) :
          /\ outcome' = o
          /\ IF o = "ok"
             THEN /\ pc' = "respond"
                  /\ result' = result
                  /\ log' = Append(log, "Message posted to Slack")
             ELSE IF o \in {"HTTPError", "URLError"}
             THEN /\ pc' = "send"
                  /\ result' = result
                  /\ log' = Append(log, IF o = "HTTPError" THEN "Slack HTTPError"
                                                           ELSE "Slack URLError")
             ELSE /\ pc' = "done"
                  /\ result' = Raised(o)
                  /\ log' = log
    /\ UNCHANGED <<inputs, locals, prev>>

\* lines 86-93: urlopen(request), with HTTPError and URLError handled
SendToSlack ==
    /\ pc = "send"
    /\ Len(posts) < MaxPosts
    /\ posts' = Append(posts, request)
    /\ \E o \in UrlopenOutcomes(network) :
          /\ outcome' = o
          /\ IF o \in {"ok", "HTTPError", "URLError"}
             THEN /\ pc' = "respond"
                  /\ result' = result
                  /\ log' = Append(log, CASE o = "ok" -> "Message posted to Slack"
                                          [] o = "HTTPError" -> "Slack HTTPError"
                                          [] o = "URLError" -> "Slack URLError")
             ELSE /\ pc' = "done"
                  /\ result' = Raised(o)
                  /\ log' = log
    /\ UNCHANGED <<inputs, locals, prev>>

\* lines 106-115
Respond ==
    /\ pc = "respond"
    /\ result' = Returned(ResponseOf(issue_url, slack_url))
    /\ pc' = "done"
    /\ UNCHANGED <<inputs, locals, posts, outcome, log, prev>>

Next ==
    \/ Invoke
    \/ Reinvoke
    \/ ReadSlackUrl
    \/ ExtractBody
    \/ ParsePayload
    \/ ExtractIssueUrl
    \/ Decide
    \/ BuildRequest
    \/ SendToSlack
    \/ Respond

Spec == Init /\ [][Next]_vars

-----------------------------------------------------------------------------
(* Properties *)

Done == pc = "done"

\* SLACK_URL is set to a non-empty value
Configured == "SLACK_URL" \in DOMAIN environ /\ Len(environ["SLACK_URL"]) > 0

\* SLACK_URL is a URL with a scheme
WellFormedDestination == Configured /\ environ["SLACK_URL"] = WebhookUrl

\* the handler returned a dict with a statusCode and a JSON text body
ReturnedEnvelope ==
    /\ result.kind = "return"
    /\ IsDict(result.value)
    /\ HasKey(result.value, Text("statusCode"))
    /\ HasKey(result.value, Text("body"))
    /\ json_loads(GetItem(result.value, Text("body"))).exc = "none"

StatusCode == GetItem(result.value, Text("statusCode"))
DecodedBody == json_loads(GetItem(result.value, Text("body"))).val

\* statusCode 200 and a body with exactly the three fields, message "success"
SuccessEnvelope ==
    /\ ReturnedEnvelope
    /\ StatusCode = PyInt(200)
    /\ IsDict(DecodedBody)
    /\ { DecodedBody.items[i].k : i \in 1..Len(DecodedBody.items) }
         = { Text("message"), Text("issueUrl"), Text("connectedToSlack") }
    /\ GetItem(DecodedBody, Text("message")) = PyStr(Text("success"))

ResponseIssueUrl == GetItem(DecodedBody, Text("issueUrl"))
ResponseConnected == GetItem(DecodedBody, Text("connectedToSlack"))

\* payload["issue"]["html_url"] when payload has an "issue" that is a mapping
\* (None when that mapping has no "html_url"), None for every other shape
IssueReference(p) ==
    IF /\ p.t = "dict"
       /\ HasKey(p, Text("issue"))
       /\ GetItem(p, Text("issue")).t = "dict"
    THEN DictGet(GetItem(p, Text("issue")), Text("html_url"))
    ELSE PyNone

\* the payload is a mapping whose issue mapping has an "html_url" member
HasHtmlUrl(p) ==
    /\ p.t = "dict"
    /\ HasKey(p, Text("issue"))
    /\ GetItem(p, Text("issue")).t = "dict"
    /\ HasKey(GetItem(p, Text("issue")), Text("html_url"))

\* a header of the request, its name compared without regard to case
HeaderNames == {"Content-Type", "Content-type", "content-type"}
SentHeader(req) ==
    { req.headers[i].v : i \in { j \in 1..Len(req.headers) : req.headers[j].k \in HeaderNames } }

\* C1: every invocation ends by returning a 200 envelope whose body decodes
\* to message "success", issueUrl and connectedToSlack; it never raises.
C1_AlwaysReturnsSuccess == Done => SuccessEnvelope

\* C2: when the body parses to a mapping with issue.html_url = U (a non-empty
\* URL) and the destination D is configured (a well-formed webhook URL), the
\* handler issues exactly one POST to D with Content-Type application/json
\* and body {"text": ":tada: New GitHub Issue created: " + U}, and returns
\* 200 with issueUrl U and connectedToSlack true.
C2_NotifiesAndReports ==
    (/\ Done
     /\ WellFormedDestination
     /\ json_loads(body).exc = "none"
     /\ HasHtmlUrl(json_loads(body).val)
     /\ IssueReference(json_loads(body).val).t = "str"
     /\ Len(IssueReference(json_loads(body).val).s) > 0)
    => LET U == IssueReference(json_loads(body).val)
       IN  /\ Len(posts) = 1
           /\ posts[1].full_url = environ["SLACK_URL"]
           /\ posts[1].method = "POST"
           /\ SentHeader(posts[1]) = {"application/json"}
           /\ json_loads(posts[1].data).val
                = PyDict(<<[k |-> Text("text"),
                           v |-> PyStr(Text(":tada: New GitHub Issue created: ") \o U.s)]>>)
           /\ SuccessEnvelope
           /\ ResponseIssueUrl = U
           /\ ResponseConnected = PyBool(TRUE)

\* C3: a POST that fails with a transport-level or HTTP-level error does not
\* propagate: the handler still returns 200 with the issueUrl it extracted
\* and connectedToSlack true, as after a successful POST.
C3_PostFailureSuppressed ==
    (Done /\ Len(posts) >= 1 /\ outcome # "ok")
    => /\ SuccessEnvelope
       /\ ResponseIssueUrl = issue_url
       /\ ResponseConnected = PyBool(TRUE)

\* C4: with SLACK_URL unset or empty, no outbound call is made, the request
\* completes with statusCode 200 and connectedToSlack is false.
C4_UnconfiguredCompletes ==
    (Done /\ ~Configured)
    => /\ posts = <<>>
       /\ SuccessEnvelope
       /\ ResponseConnected = PyBool(FALSE)

\* C5: when the body parses as JSON and issue.html_url is absent, no outbound
\* call is made and issueUrl in the response is null.
C5_AbsentUrlNoCall ==
    (Done /\ json_loads(body).exc = "none" /\ ~HasHtmlUrl(json_loads(body).val))
    => /\ posts = <<>>
       /\ ReturnedEnvelope
       /\ ResponseIssueUrl = PyNone

C7_AtMostOnePost == Len(posts) <= 1

C7_Witness ==
    /\ Done
    /\ Len(posts) = 1
    /\ outcome \in {"HTTPError", "URLError"}
    /\ result.kind = "return"

\* C8: an invocation repeated with the identical input and the same
\* configured but unreachable destination ends exactly as the one before it.
C8_RepeatIdentical ==
    (Done /\ prev.valid /\ Configured /\ network = "unreachable")
    => result = prev.result

C8_Witness ==
    /\ Done
    /\ prev.valid
    /\ Configured
    /\ network = "unreachable"
    /\ Len(posts) = 1
    /\ outcome = "URLError"
    /\ prev.result.kind = "return"
    /\ result = prev.result

\* C9: the issue reference extracted from the parsed payload is
\* payload["issue"]["html_url"] when "issue" is a mapping and null for every
\* other payload shape, and the extraction never raises.
C9_ExtractionTotal ==
    (Done /\ payload # Unbound)
    => /\ result.exc # "TypeError"
       /\ issue_url = IssueReference(payload)

\* C10: the "body" value of a request that has one is used as the payload;
\* a request without one is itself the payload from which the issue
\* reference is extracted.
C10_RequestIsPayload ==
    Done
    => IF IsDict(event) /\ HasKey(event, Text("body"))
       THEN body = GetItem(event, Text("body"))
       ELSE /\ body = event
            /\ (IsDict(event) => issue_url = IssueReference(event))

-----------------------------------------------------------------------------
(* What does hold of the handler where C1-C5, C9 and C10 fail *)

\* C1, on the paths that do not raise: the returned envelope is always the
\* 200 envelope with the three fields.
ReturnIsSuccessEnvelope == (Done /\ result.kind = "return") => SuccessEnvelope

\* C1, C9: the handler raises only a TypeError from the extraction on a
\* payload that is no mapping, a ValueError from Request() on a destination
\* without a scheme, or the error urlopen raised that is not a URLError.
RaisesOnlyThese ==
    (Done /\ result.kind = "raise")
    => \/ result.exc = "TypeError" /\ ~IsDict(payload) /\ posts = <<>>
       \/ result.exc = "ValueError" /\ ~WellFormedDestination /\ posts = <<>>
       \/ result.exc = "RemoteDisconnected" /\ outcome = "RemoteDisconnected"

\* C2, C3: after a POST that succeeded or failed with HTTPError or URLError
\* the response is the same: 200, the extracted issueUrl, connectedToSlack true.
CaughtPostFailureSuppressed ==
    (Done /\ Len(posts) >= 1 /\ outcome \in {"ok", "HTTPError", "URLError"})
    => /\ SuccessEnvelope
       /\ ResponseIssueUrl = issue_url
       /\ ResponseConnected = PyBool(TRUE)
       /\ posts[1].full_url = environ["SLACK_URL"]
       /\ SentHeader(posts[1]) = {"application/json"}

\* C4: with SLACK_URL unset or empty no outbound call is made, and a
\* returned response says connectedToSlack false.
UnconfiguredNeverPosts ==
    ~Configured
    => /\ posts = <<>>
       /\ (Done /\ result.kind = "return") => ResponseConnected = PyBool(FALSE)

\* C5, C9: for a payload that is a mapping the extraction does not raise and
\* yields IssueReference(payload); without an html_url nothing is posted and
\* issueUrl is null.
MappingPayloadExtraction ==
    (Done /\ IsDict(payload))
    => /\ result.exc # "TypeError"
       /\ issue_url = IssueReference(payload)
       /\ ~HasHtmlUrl(payload) => (posts = <<>> /\ ReturnedEnvelope /\ ResponseIssueUrl = PyNone)

\* C10: the raw body is event["body"] when the event has one and the event
\* otherwise; an event that is JSON text is parsed as the payload.
BodyResolution ==
    Done
    => /\ body = (IF IsDict(event) /\ HasKey(event, Text("body"))
                  THEN GetItem(event, Text("body")) ELSE event)
       /\ (event.t = "str" /\ json_loads(event).exc = "none") => payload = json_loads(event).val

====
